---- MODULE Spec2Model ----
(***************************************************************************)
(* Model of scripts/validate-keys.py (the API Key Validator).              *)
(*                                                                         *)
(* One run of the script is a linear program: load the .env file, check    *)
(* CoinGecko, pause, check Etherscan, pause, check GitHub, then summarise, *)
(* write the JSON report and exit.  The environment supplies the .env      *)
(* file, the outcome of each HTTP GET, the installed version of the HTTP   *)
(* library and operator interrupts.                                        *)
(***************************************************************************)
EXTENDS Integers, Sequences, FiniteSets, TLC

\* ------------------------------------------------------------------ bounds
\* Longest .env file considered, in lines.
MaxLines == 3

\* ------------------------------------------------------- program constants
HighLimit == 5000

PauseSeconds == 1

\* ------------------------------------------------------------ vocabulary
Services == {"coingecko", "etherscan", "github"}

\* The key of the .env file read for each service (main, lines 314/323/332).
EnvKey(s) ==
    CASE s = "coingecko" -> "COINGECKO_API_KEY"
      [] s = "etherscan" -> "ETHERSCAN_API_KEY"
      [] s = "github"    -> "GITHUB_TOKEN"

\* The spec's status taxonomy; 'unknown' is the value a result starts with.
Terminal == {"valid", "invalid", "not_configured", "rate_limited", "timeout", "error"}

\* Marks an absent value: dict.get() returning None, a missing JSON field,
\* a service that has no entry in `results` yet.
None == "<None>"

\* ------------------------------------------------------------- .env file
\* A line of the file, by what load_env_file tells apart: a line it skips
\* (blank after strip(), starting with '#', or without '=') or KEY=VALUE,
\* the value possibly empty or only blanks.
KvLines ==
    [kind : {"kv"}, key : {"COINGECKO_API_KEY", "GITHUB_TOKEN"}, value : {"", "k"}]
      \cup [kind : {"kv"}, key : {"ETHERSCAN_API_KEY"}, value : {" ", "k"}]

\* The skipped line of the model is a comment that contains '='.
OtherLines ==
    {[kind |-> "comment", key |-> "COINGECKO_API_KEY", value |-> "k"]}

Lines == KvLines \cup OtherLines

RECURSIVE SeqsUpTo(_, _)
SeqsUpTo(S, n) ==
    IF n = 0 THEN {<<>>}
    ELSE LET shorter == SeqsUpTo(S, n - 1)
         IN  shorter \cup {Append(q, x) : q \in {r \in shorter : Len(r) = n - 1}, x \in S}

Files == SeqsUpTo(Lines, MaxLines)

\* str.strip() on the values the model uses.
Strip(v) == IF v = " " THEN "" ELSE v

\* load_env_file's loop: later assignments of a key overwrite earlier ones.
RECURSIVE ParseLines(_, _)
ParseLines(lines, env) ==
    IF lines = <<>> THEN env
    ELSE LET line == Head(lines)
             env2 == IF line.kind = "kv"
                     THEN [k \in DOMAIN env \cup {line.key} |->
                              IF k = line.key THEN Strip(line.value) ELSE env[k]]
                     ELSE env
         IN  ParseLines(Tail(lines), env2)

\* The empty dict.
EmptyEnv == [k \in {} |-> ""]

\* load_env_file: {} when the file does not exist, else the parsed lines.
load_env_file(exists, lines) ==
    IF ~exists THEN EmptyEnv ELSE ParseLines(lines, EmptyEnv)

\* dict.get(key): None when the key is absent.
EnvGet(env, k) == IF k \in DOMAIN env THEN env[k] ELSE None

\* Variant: only None counts as missing.
Truthy_NoneOnly(v) == v # None

\* Python truthiness of an Optional[str]: None and '' are falsy.
Truthy(v) == v # None /\ v # ""

\* ---------------------------------------------------------- HTTP outcomes
\* What requests.get() can do: raise Timeout, raise another
\* RequestException (connection refused, DNS failure, ...), or return a
\* response.  A response body is JSON or not; a JSON body is an object or
\* another JSON value (a list, a string, ...).
Timeout == [kind |-> "timeout"]
ConnectionError == [kind |-> "request_exception"]

\* A JSON field: absent, an integer, or a value of another type.
Absent == [t |-> "absent", v |-> 0]
JInt(n) == [t |-> "int", v |-> n]
JStr == [t |-> "str", v |-> 0]

NoBody == [json |-> "invalid"]

Response(code, headers, body) ==
    [kind |-> "response", status_code |-> code, headers |-> headers, body |-> body]

\* Status codes other than 200: the body and headers are not read (only
\* quoted in a message).  Only validate_coingecko tells 429 from the rest.
OtherCodes == {401, 500}

RateHeaders == {<<"x-ratelimit-limit", "30">>, <<"x-ratelimit-remaining", "29">>}

CoinGeckoBodies ==
    {NoBody, [json |-> "nonobject"]}
      \cup [json : {"object"}, gecko_says : {None, "(V3) To the Moon!"}]

\* The headers are read only next to a JSON object; the object without
\* 'gecko_says' comes without headers.
CoinGeckoOutcomes ==
    {Timeout, ConnectionError}
      \cup {Response(c, {}, NoBody) : c \in OtherCodes \cup {429}}
      \cup {Response(200, {}, b) : b \in CoinGeckoBodies}
      \cup {Response(200, h, [json |-> "object", gecko_says |-> "(V3) To the Moon!"]) :
               h \in SUBSET RateHeaders}

\* Etherscan's `result` field: absent, JSON null, a string with or without
\* the text 'ethusd', an object with the key 'ethusd'.  The
\* message is read only when the status is not '1', the result only when it
\* is.
EtherscanBodies ==
    {NoBody, [json |-> "nonobject"]}
      \cup [json : {"object"}, status : {"1"}, message : {"OK"},
            result : {"absent", "null", "str", "str_ethusd", "obj_ethusd"},
            ethusd : {"3000.5"}]
      \cup {[json |-> "object", status |-> "0", message |-> "NOTOK", result |-> "str",
             ethusd |-> "3000.5"],
            [json |-> "object", status |-> None, message |-> None, result |-> "absent",
             ethusd |-> "3000.5"]}

EtherscanOutcomes ==
    {Timeout, ConnectionError}
      \cup {Response(c, {}, NoBody) : c \in OtherCodes}
      \cup {Response(200, {}, b) : b \in EtherscanBodies}

\* GitHub's `rate` field: absent, not an object, or an object whose limit,
\* remaining and reset fields may be absent or of another type.
GitHubBodies ==
    {NoBody, [json |-> "nonobject"]}
      \cup {[json |-> "object", rate |-> r, limit |-> Absent, remaining |-> Absent,
             reset |-> Absent] : r \in {"absent", "nondict"}}
      \cup [json : {"object"}, rate : {"dict"},
            limit : {Absent, JInt(60), JInt(HighLimit), JStr},
            remaining : {JInt(59)},
            reset : {JInt(1700000000)}]
      \cup {[json |-> "object", rate |-> "dict", limit |-> JInt(HighLimit),
             remaining |-> JInt(59), reset |-> Absent]}

GitHubOutcomes ==
    {Timeout, ConnectionError}
      \cup {Response(c, {}, NoBody) : c \in OtherCodes}
      \cup {Response(200, {}, b) : b \in GitHubBodies}

\* ------------------------------------------------------ per-service checks
\* The `result` dict every check starts with.
NewResult(service) ==
    [service |-> service, status |-> "unknown", message |-> "", details |-> {}]

\* `return valid, result` after `gets` HTTP requests.
Returned(valid, result, gets) ==
    [raised |-> FALSE, exc |-> None, valid |-> valid, result |-> result, gets |-> gets]

\* An exception leaving the check after `gets` HTTP requests.
Raised(exc, result, gets) ==
    [raised |-> TRUE, exc |-> exc, valid |-> FALSE, result |-> result, gets |-> gets]

SetStatus(result, status, message) ==
    [result EXCEPT !.status = status, !.message = message]

\* Variant: the detail is not stored.
AddDetail_Dropped(result, key, value) == result

\* result['details'][key] = value.
AddDetail(result, key, value) ==
    [result EXCEPT !.details = {d \in @ : d[1] # key} \cup {<<key, value>>}]

\* Is `exc` a requests.exceptions.RequestException?  JSONDecodeError is one
\* from requests 2.27 on; before, response.json() raised a plain ValueError.
IsRequestException(exc, jsonErrIsReqExc) ==
    \/ exc \in {"Timeout", "ConnectionError"}
    \/ exc = "JSONDecodeError" /\ jsonErrIsReqExc

\* Variant: the Timeout clause is missing, so a timeout falls to the
\* RequestException clause.
HandleException_NoTimeoutClause(exc, result, jsonErrIsReqExc) ==
    IF IsRequestException(exc, jsonErrIsReqExc)
    THEN Returned(FALSE, SetStatus(result, "error", "Request failed: " \o exc), 1)
    ELSE Raised(exc, result, 1)

\* Variant: the Timeout clause returns True.
HandleException_TimeoutReturnsTrue(exc, result, jsonErrIsReqExc) ==
    IF exc = "Timeout"
    THEN Returned(TRUE, SetStatus(result, "timeout", "Request timed out"), 1)
    ELSE IF IsRequestException(exc, jsonErrIsReqExc)
    THEN Returned(FALSE, SetStatus(result, "error", "Request failed: " \o exc), 1)
    ELSE Raised(exc, result, 1)

\* The two except clauses that close each check's try block.
HandleException(exc, result, jsonErrIsReqExc) ==
    IF exc = "Timeout"
    THEN Returned(FALSE, SetStatus(result, "timeout", "Request timed out"), 1)
    ELSE IF IsRequestException(exc, jsonErrIsReqExc)
    THEN Returned(FALSE, SetStatus(result, "error", "Request failed: " \o exc), 1)
    ELSE Raised(exc, result, 1)

\* requests.get(): the exception it raises, or None when it returns.
GetException(out) ==
    CASE out.kind = "timeout" -> "Timeout"
      [] out.kind = "request_exception" -> "ConnectionError"
      [] OTHER -> None

HeaderValue(headers, name) == (CHOOSE h \in headers : h[1] = name)[2]

HasHeader(headers, name) == \E h \in headers : h[1] = name

validate_coingecko(api_key, out, jsonErrIsReqExc) ==
    LET result == NewResult("CoinGecko") IN
    IF ~Truthy(api_key)
    THEN Returned(FALSE, SetStatus(result, "not_configured", "API key not configured"), 0)
    ELSE IF GetException(out) # None
    THEN HandleException(GetException(out), result, jsonErrIsReqExc)
    ELSE IF out.status_code = 200
    THEN IF out.body.json = "invalid"
         THEN HandleException("JSONDecodeError", result, jsonErrIsReqExc)
         ELSE IF out.body.json = "nonobject"
         THEN HandleException("AttributeError", SetStatus(result, "valid", "API key is valid"),
                              jsonErrIsReqExc)
         ELSE LET r1 == SetStatus(result, "valid", "API key is valid")
                  r2 == AddDetail(r1, "response",
                            IF out.body.gecko_says = None THEN "OK" ELSE out.body.gecko_says)
                  r3 == IF HasHeader(out.headers, "x-ratelimit-limit")
                        THEN AddDetail(r2, "rate_limit",
                                       HeaderValue(out.headers, "x-ratelimit-limit"))
                        ELSE r2
                  r4 == IF HasHeader(out.headers, "x-ratelimit-remaining")
                        THEN AddDetail(r3, "rate_remaining",
                                       HeaderValue(out.headers, "x-ratelimit-remaining"))
                        ELSE r3
              IN  Returned(TRUE, r4, 1)
    ELSE IF out.status_code = 401
    THEN Returned(FALSE, SetStatus(result, "invalid", "API key is invalid or expired"), 1)
    ELSE IF out.status_code = 429
    THEN Returned(FALSE, SetStatus(result, "rate_limited", "Rate limit exceeded"), 1)
    ELSE Returned(FALSE, SetStatus(result, "error", "HTTP " \o ToString(out.status_code)), 1)

\* Variant: HTTP 200 alone is taken as success.
EtherscanAccepted_IgnoreFlag(body) == TRUE

\* data.get('status') == '1'.
EtherscanAccepted(body) == body.status = "1"

validate_etherscan(api_key, out, jsonErrIsReqExc) ==
    LET result == NewResult("Etherscan") IN
    IF ~Truthy(api_key)
    THEN Returned(FALSE, SetStatus(result, "not_configured", "API key not configured"), 0)
    ELSE IF GetException(out) # None
    THEN HandleException(GetException(out), result, jsonErrIsReqExc)
    ELSE IF out.status_code = 200
    THEN IF out.body.json = "invalid"
         THEN HandleException("JSONDecodeError", result, jsonErrIsReqExc)
         ELSE IF out.body.json = "nonobject"
         THEN HandleException("AttributeError", result, jsonErrIsReqExc)
         ELSE IF EtherscanAccepted(out.body)
         THEN LET r1 == SetStatus(result, "valid", "API key is valid")
              IN  CASE out.body.result \in {"absent", "str"} ->
                         Returned(TRUE, r1, 1)
                    [] out.body.result \in {"null", "str_ethusd"} ->
                         HandleException("TypeError", r1, jsonErrIsReqExc)
                    [] out.body.result = "obj_ethusd" ->
                         Returned(TRUE, AddDetail(r1, "eth_price", "$" \o out.body.ethusd), 1)
         ELSE Returned(FALSE,
                       SetStatus(result, "invalid",
                                 IF out.body.message = None THEN "API key validation failed"
                                 ELSE out.body.message),
                       1)
    ELSE Returned(FALSE, SetStatus(result, "error", "HTTP " \o ToString(out.status_code)), 1)

\* data.get('rate', {}).get(field, 0) for an integer or absent field.
RateField(f) == IF f.t = "int" THEN f.v ELSE 0

\* f'{value}' of a rate field.
FormatField(f) == IF f.t = "str" THEN "many" ELSE ToString(RateField(f))

\* datetime.fromtimestamp(t).strftime('%Y-%m-%d %H:%M:%S'); the model keeps
\* the instant and drops the calendar arithmetic.
FormatTimestamp(t) == "local time of " \o ToString(t)

validate_github(token, out, jsonErrIsReqExc) ==
    LET result == NewResult("GitHub") IN
    IF ~Truthy(token)
    THEN Returned(FALSE, SetStatus(result, "not_configured", "Token not configured"), 0)
    ELSE IF GetException(out) # None
    THEN HandleException(GetException(out), result, jsonErrIsReqExc)
    ELSE IF out.status_code = 200
    THEN IF out.body.json = "invalid"
         THEN HandleException("JSONDecodeError", result, jsonErrIsReqExc)
         ELSE IF out.body.json = "nonobject" \/ out.body.rate = "nondict"
         THEN HandleException("AttributeError", result, jsonErrIsReqExc)
         ELSE LET rate_limit == out.body.limit
                  remaining == out.body.remaining
                  reset_time == RateField(out.body.reset)
                  r1 == SetStatus(result, "valid", "Token is valid")
                  r2 == AddDetail(r1, "rate_limit", FormatField(rate_limit) \o " requests/hour")
                  r3 == AddDetail(r2, "remaining",
                                  FormatField(remaining) \o " requests remaining")
                  r4 == IF reset_time # 0
                        THEN AddDetail(r3, "reset_time", FormatTimestamp(reset_time))
                        ELSE r3
              IN  IF rate_limit.t = "str"
                  THEN HandleException("TypeError", r4, jsonErrIsReqExc)
                  ELSE IF RateField(rate_limit) < HighLimit
                  THEN Returned(TRUE,
                                [r4 EXCEPT !.message = @ \o " (Limited to "
                                     \o FormatField(rate_limit)
                                     \o " req/hour - consider using token with higher limits)"],
                                1)
                  ELSE Returned(TRUE, r4, 1)
    ELSE IF out.status_code = 401
    THEN Returned(FALSE, SetStatus(result, "invalid", "Token is invalid or expired"), 1)
    ELSE Returned(FALSE, SetStatus(result, "error", "HTTP " \o ToString(out.status_code)), 1)

\* The check main() calls for each service.
Validate(s, key, out, jsonErrIsReqExc) ==
    CASE s = "coingecko" -> validate_coingecko(key, out, jsonErrIsReqExc)
      [] s = "etherscan" -> validate_etherscan(key, out, jsonErrIsReqExc)
      [] s = "github"    -> validate_github(key, out, jsonErrIsReqExc)

Outcomes(s) ==
    CASE s = "coingecko" -> CoinGeckoOutcomes
      [] s = "etherscan" -> EtherscanOutcomes
      [] s = "github"    -> GitHubOutcomes

\* ------------------------------------------------------- report, summary
\* The keys of a result dict.
ResultKeys == DOMAIN NewResult("")

\* The integer 1 used as a subscript (line 343: r[1]); no result dict has it
\* as a key.
IntOne == "<int 1>"

\* dict subscript: KeyError for a key the dict does not hold.
HasKey(dict, key) == key \in DOMAIN dict

\* valid_count of main(): entries whose boolean is true.
valid_count(res) == Cardinality({s \in DOMAIN res : res[s].valid})

\* configured_count of main().  The generator unpacks each value of
\* `results` as (_, r), so r is the result dict, and evaluates
\* r[1]['status']: a KeyError as soon as `results` has an entry.
ConfiguredCountRaises(res) ==
    \E s \in DOMAIN res : ~HasKey(res[s].result, IntOne)

configured_count(res) ==
    Cardinality({s \in DOMAIN res : res[s].result[IntOne]["status"] # "not_configured"})

\* generate_report(): one entry {valid, status, message, details} per entry
\* of `results`, under a timestamp.
generate_report(res) ==
    [timestamp |-> "now",
     results |-> [s \in DOMAIN res |->
                    [valid |-> res[s].valid,
                     status |-> res[s].result.status,
                     message |-> res[s].result.message,
                     details |-> res[s].result.details]]]

\* The dict `results` before the first check.
EmptyResults == [s \in {} |-> Returned(FALSE, NewResult(""), 0)]

\* The report a previous run left on disk.
PreviousReport == [timestamp |-> "previous run", results |-> generate_report(EmptyResults).results]

\* ------------------------------------------------------------------ state
VARIABLES
    fileExists,       \* does the .env file exist
    fileLines,        \* its lines
    jsonErrIsReqExc,  \* installed requests: is JSONDecodeError a RequestException
    pc,               \* position of main()
    env_vars,         \* the dict load_env_file returned
    results,          \* the dict main() fills: service -> (valid, result)
    requests,         \* HTTP GETs issued so far, per service
    responses,        \* what each GET met: service -> outcome
    trace,            \* checks, requests, pauses and report writes, in order
    errors,           \* error messages printed so far
    reportFile,       \* content of api-keys-validation-report.json
    reportWrites,     \* number of times the report file was written
    exitCode,         \* <<>> while running, <<n>> after sys.exit(n)
    sigint,           \* has the operator interrupted the running script
    apc,              \* auto-register.py: "off", "run" or "done"
    todo,             \* auto-register.py: the steps main() still has to do
    flags,            \* auto-register.py: the services answered 'y' so far
    opens,            \* auto-register.py: the open_browser calls and what they met
    aprinted,         \* auto-register.py: URLs and errors printed so far
    aexit             \* auto-register.py: <<>> while running, <<n>> after exit

\* The state of auto-register.py.
avars == <<apc, todo, flags, opens, aprinted, aexit>>

\* The state of validate-keys.py.
kvars == <<fileExists, fileLines, jsonErrIsReqExc, pc, env_vars, results, requests, responses,
           trace, errors, reportFile, reportWrites, exitCode>>

vars == <<kvars, sigint, avars>>

\* auto-register.py is not the script this process runs.
AssistantOff ==
    /\ apc = "off"
    /\ todo = <<>>
    /\ flags = {}
    /\ opens = <<>>
    /\ aprinted = {}
    /\ aexit = <<>>

env == <<fileExists, fileLines, jsonErrIsReqExc>>

Init ==
    /\ fileExists \in BOOLEAN
    /\ fileLines \in (IF fileExists THEN Files ELSE {<<>>})
    /\ jsonErrIsReqExc \in BOOLEAN
    /\ pc = "load"
    /\ env_vars = EmptyEnv
    /\ results = EmptyResults
    /\ requests = [s \in Services |-> 0]
    /\ responses = [s \in {} |-> Timeout]
    /\ trace = <<>>
    /\ errors = {}
    /\ reportFile = PreviousReport
    /\ reportWrites = 0
    /\ exitCode = <<>>
    /\ sigint = FALSE
    /\ AssistantOff

\* sys.exit(code).
Exit(code) ==
    /\ exitCode' = <<code>>
    /\ pc' = "done"

\* `except Exception` of __main__: print the error, exit 1.
Crash ==
    /\ errors' = errors \cup {"Unexpected error"}
    /\ Exit(1)

\* main(), lines 287-305: load the .env file; an empty dict ends the run.
Load ==
    /\ pc = "load"
    /\ env_vars' = load_env_file(fileExists, fileLines)
    /\ IF env_vars' = EmptyEnv
       THEN /\ errors' = errors \cup {"Failed to load .env file"}
                           \cup (IF fileExists THEN {} ELSE {".env file not found"})
            /\ Exit(1)
       ELSE /\ errors' = errors
            /\ pc' = "coingecko"
            /\ UNCHANGED exitCode
    /\ UNCHANGED <<env, sigint, avars, results, requests, responses, trace, reportFile, reportWrites>>

\* main(): one service's block: read the key, run the check, store and
\* print the result.  An exception leaving the check reaches __main__.
Check(s, next) ==
    /\ pc = s
    /\ LET key == EnvGet(env_vars, EnvKey(s)) IN
       \E out \in (IF Truthy(key) THEN Outcomes(s) ELSE {Timeout}) :
          LET r == Validate(s, key, out, jsonErrIsReqExc)
              gets == [i \in 1..r.gets |-> "get:" \o s]
          IN  /\ requests' = [requests EXCEPT ![s] = @ + r.gets]
              /\ responses' = IF r.gets = 0 THEN responses
                              ELSE [t \in DOMAIN responses \cup {s} |->
                                      IF t = s THEN out ELSE responses[t]]
              /\ IF r.raised
                 THEN /\ trace' = trace \o gets
                      /\ Crash
                      /\ UNCHANGED results
                 ELSE /\ trace' = trace \o gets \o <<"result:" \o s>>
                      /\ results' = [t \in DOMAIN results \cup {s} |->
                                       IF t = s THEN r ELSE results[t]]
                      /\ pc' = next
                      /\ UNCHANGED <<errors, exitCode>>
    /\ UNCHANGED <<env, sigint, avars, env_vars, reportFile, reportWrites>>

CheckCoinGecko == Check("coingecko", "sleep1")

CheckEtherscan == Check("etherscan", "sleep2")

CheckGitHub == Check("github", "summary")

\* Variant: the pause is left out.
Sleep_NoPause(at, next) ==
    /\ pc = at
    /\ pc' = next
    /\ UNCHANGED <<env, sigint, avars, env_vars, results, requests, responses, trace, errors, reportFile,
                   reportWrites, exitCode>>

\* time.sleep(1) after the CoinGecko and the Etherscan block.
Sleep(at, next) ==
    /\ pc = at
    /\ trace' = Append(trace, "sleep:" \o ToString(PauseSeconds))
    /\ pc' = next
    /\ UNCHANGED <<env, sigint, avars, env_vars, results, requests, responses, errors, reportFile, reportWrites,
                   exitCode>>

Sleep1 == Sleep("sleep1", "etherscan")

Sleep2 == Sleep("sleep2", "github")

\* main(), lines 338-374: the counts, the report file, the exit code.
Summary ==
    /\ pc = "summary"
    /\ IF ConfiguredCountRaises(results)
       THEN /\ Crash
            /\ UNCHANGED <<trace, reportFile, reportWrites>>
       ELSE /\ reportFile' = generate_report(results)
            /\ reportWrites' = reportWrites + 1
            /\ trace' = Append(trace, "report")
            /\ errors' = errors
            /\ IF valid_count(results) = configured_count(results)
                    /\ configured_count(results) > 0
               THEN Exit(0)
               ELSE Exit(1)
    /\ UNCHANGED <<env, sigint, avars, env_vars, results, requests, responses>>

\* KeyboardInterrupt at any point of the run: __main__ exits 130.
Interrupt ==
    /\ pc \notin {"off", "done"}
    /\ sigint' = TRUE
    /\ Exit(130)
    /\ UNCHANGED <<env, avars, env_vars, results, requests, responses, trace, errors, reportFile,
                   reportWrites>>

Next ==
    \/ Load
    \/ CheckCoinGecko
    \/ Sleep1
    \/ CheckEtherscan
    \/ Sleep2
    \/ CheckGitHub
    \/ Summary
    \/ Interrupt

Spec == Init /\ [][Next]_vars

TypeOK ==
    /\ pc \in {"off", "load", "coingecko", "sleep1", "etherscan", "sleep2", "github", "summary",
              "done"}
    /\ DOMAIN results \subseteq Services
    /\ exitCode \in {<<>>, <<0>>, <<1>>, <<130>>}
    /\ \A s \in Services : requests[s] \in 0..1

\* ------------------------------------------------------- auto-register.py
\* The Account-Setup Assistant.  main() is a fixed sequence of blocking
\* steps; `todo` holds the steps still to do, and an answer of the operator
\* may add steps in front.
Step(op, arg) == [op |-> op, arg |-> arg]

\* prompt_continue(): input("Press Enter to continue...").
Prompt == Step("prompt", "")

\* A call open_browser(url).
Open(url) == Step("open", url)

\* guide_coingecko(): the plan question, then two pages and three prompts.
\* The plan only changes the text of step 3.
guide_coingecko ==
    <<Step("plan", ""),
      Open("https://www.coingecko.com/en/api/pricing"), Prompt, Prompt,
      Open("https://www.coingecko.com/en/developers/dashboard"), Prompt>>

\* guide_etherscan(): two pages and three prompts.
guide_etherscan ==
    <<Open("https://etherscan.io"), Prompt, Prompt,
      Open("https://etherscan.io/myapikey"), Prompt>>

\* guide_github(): the account question comes first.
guide_github == <<Step("has_account", "")>>

\* guide_github() after the account question: the sign-up page unless the
\* answer was 'y', then the token page and three prompts.
guide_github_rest(has_account) ==
    (IF has_account # "y" THEN <<Open("https://github.com/signup"), Prompt>> ELSE <<>>)
      \o <<Open("https://github.com/settings/tokens"), Prompt, Prompt, Prompt>>

\* main() up to the test of the three flags.
main_start ==
    <<Prompt, Step("select", "coingecko"), Step("select", "etherscan"),
      Step("select", "github"), Step("dispatch", "")>>

\* main() after the test: nothing when no flag is set (return), else the
\* selected guides in the fixed order and the final instructions.
main_rest(f) ==
    IF f = {} THEN <<>>
    ELSE (IF "coingecko" \in f THEN guide_coingecko ELSE <<>>)
           \o (IF "etherscan" \in f THEN guide_etherscan ELSE <<>>)
           \o (IF "github" \in f THEN guide_github ELSE <<>>)
           \o <<Step("next_steps", "")>>

\* What the operator may type at a y/n question.
Answers == {"y", "Y", "n", ""}

\* str.lower() on the answers of the model.
Lower(a) == IF a = "Y" THEN "y" ELSE a

\* What webbrowser.open() can do: return True, return False (no browser
\* could be launched), or raise (webbrowser.Error, OSError, ...).
Launches == {"opened", "not_opened", "raised"}

\* Variant: no try/except around webbrowser.open().
open_browser_NoTry(url, launch) ==
    [raised |-> launch = "raised", value |-> TRUE, printed |-> {<<"info", url>>}]

\* open_browser(): prints the URL, calls webbrowser.open() and ignores its
\* return value; an exception is caught, reported, and the URL printed again
\* for a manual visit.
open_browser(url, launch) ==
    IF launch = "raised"
    THEN [raised |-> FALSE, value |-> FALSE,
          printed |-> {<<"info", url>>, <<"error", "Failed to open browser">>,
                       <<"warning", url>>}]
    ELSE [raised |-> FALSE, value |-> TRUE, printed |-> {<<"info", url>>}]

\* The steps that block in input().
InputOps == {"prompt", "select", "plan", "has_account"}

Running == apc = "run"

AtStep(op) == Running /\ todo # <<>> /\ Head(todo).op = op

InitAssistant ==
    /\ fileExists = FALSE
    /\ fileLines = <<>>
    /\ jsonErrIsReqExc = TRUE
    /\ pc = "off"
    /\ env_vars = EmptyEnv
    /\ results = EmptyResults
    /\ requests = [s \in Services |-> 0]
    /\ responses = [s \in {} |-> Timeout]
    /\ trace = <<>>
    /\ errors = {}
    /\ reportFile = PreviousReport
    /\ reportWrites = 0
    /\ exitCode = <<>>
    /\ sigint = FALSE
    /\ apc = "run"
    /\ todo = main_start
    /\ flags = {}
    /\ opens = <<>>
    /\ aprinted = {}
    /\ aexit = <<>>

\* The process of auto-register.py ends with this status.
AExit(code) ==
    /\ aexit' = <<code>>
    /\ apc' = "done"

\* `except Exception` of __main__: print the error, exit 1.
ACrash(exc) ==
    /\ aprinted' = aprinted \cup {<<"error", exc>>}
    /\ AExit(1)

\* prompt_continue(): the operator presses Enter.
APrompt ==
    /\ AtStep("prompt")
    /\ todo' = Tail(todo)
    /\ UNCHANGED <<kvars, sigint, apc, flags, opens, aprinted, aexit>>

\* main(), lines 268-270: one of the three y/n questions.
ASelect ==
    /\ AtStep("select")
    /\ \E answer \in Answers :
          flags' = IF Lower(answer) = "y" THEN flags \cup {Head(todo).arg} ELSE flags
    /\ todo' = Tail(todo)
    /\ UNCHANGED <<kvars, sigint, apc, opens, aprinted, aexit>>

\* main(), lines 272-284: return when nothing is selected, else run the
\* selected guides.
ADispatch ==
    /\ AtStep("dispatch")
    /\ todo' = main_rest(flags)
    /\ aprinted' = IF flags = {} THEN aprinted \cup {<<"warning", "No services selected">>}
                   ELSE aprinted
    /\ UNCHANGED <<kvars, sigint, apc, flags, opens, aexit>>

\* guide_coingecko(), lines 90-94: the plan question.
APlan ==
    /\ AtStep("plan")
    /\ todo' = Tail(todo)
    /\ UNCHANGED <<kvars, sigint, apc, flags, opens, aprinted, aexit>>

\* guide_github(), lines 201-209: the account question.
AHasAccount ==
    /\ AtStep("has_account")
    /\ \E answer \in Answers :
          todo' = guide_github_rest(Lower(answer)) \o Tail(todo)
    /\ UNCHANGED <<kvars, sigint, apc, flags, opens, aprinted, aexit>>

\* A guide calls open_browser(url) and goes on with its next step; an
\* exception leaving open_browser would reach __main__.
AOpenBrowser ==
    /\ AtStep("open")
    /\ \E launch \in Launches :
          LET url == Head(todo).arg
              r == open_browser(url, launch)
          IN  /\ opens' = Append(opens, [url |-> url, launch |-> launch, value |-> r.value])
              /\ IF r.raised
                 THEN /\ aprinted' = aprinted \cup r.printed \cup {<<"error", "webbrowser.Error">>}
                      /\ AExit(1)
                      /\ UNCHANGED todo
                 ELSE /\ aprinted' = aprinted \cup r.printed
                      /\ todo' = Tail(todo)
                      /\ UNCHANGED <<apc, aexit>>
    /\ UNCHANGED <<kvars, sigint, flags>>

\* main(), lines 286-304: the final instructions.
ANextSteps ==
    /\ AtStep("next_steps")
    /\ todo' = Tail(todo)
    /\ UNCHANGED <<kvars, sigint, apc, flags, opens, aprinted, aexit>>

\* main() returns: the process ends with status 0.
AReturn ==
    /\ Running
    /\ todo = <<>>
    /\ AExit(0)
    /\ UNCHANGED <<kvars, sigint, todo, flags, opens, aprinted>>

\* input() raises EOFError (standard input closed): an unhandled error.
AEndOfInput ==
    /\ Running
    /\ todo # <<>>
    /\ Head(todo).op \in InputOps
    /\ ACrash("EOFError")
    /\ UNCHANGED <<kvars, sigint, todo, flags, opens>>

\* Variant: the interrupt ends in the `except Exception` handler.
AInterrupt_AsError ==
    /\ Running
    /\ sigint' = TRUE
    /\ AExit(1)
    /\ UNCHANGED <<kvars, todo, flags, opens, aprinted>>

\* KeyboardInterrupt at any point of the run: __main__ exits 130.
AInterrupt ==
    /\ Running
    /\ sigint' = TRUE
    /\ AExit(130)
    /\ UNCHANGED <<kvars, todo, flags, opens, aprinted>>

NextAssistant ==
    \/ APrompt
    \/ ASelect
    \/ ADispatch
    \/ APlan
    \/ AHasAccount
    \/ AOpenBrowser
    \/ ANextSteps
    \/ AReturn
    \/ AEndOfInput
    \/ AInterrupt

\* A run of auto-register.py.
SpecAssistant == InitAssistant /\ [][NextAssistant]_vars

\* A run of either script.
InitPrograms == Init \/ InitAssistant

NextPrograms == Next \/ NextAssistant

SpecPrograms == InitPrograms /\ [][NextPrograms]_vars

\* ---------------------------------------------------------------- claims
Status(s) == results[s].result.status

Checked(s) == s \in DOMAIN results

\* The run ended with all three checks done and no operator interrupt.
RanToEnd == pc = "done" /\ exitCode # <<130>> /\ DOMAIN results = Services

IsKeyLine(line, s) == line.kind = "kv" /\ line.key = EnvKey(s)

\* The .env file has no line that sets the service's key.
KeyAbsent(s) ==
    ~fileExists \/ \A i \in DOMAIN fileLines : ~IsKeyLine(fileLines[i], s)

\* The line of the .env file that sets the service's key last gives it the
\* empty value.
KeyEmpty(s) ==
    /\ fileExists
    /\ \E i \in DOMAIN fileLines :
          /\ IsKeyLine(fileLines[i], s)
          /\ fileLines[i].value = ""
          /\ \A j \in DOMAIN fileLines : j > i => ~IsKeyLine(fileLines[j], s)

Got(s, code) ==
    /\ s \in DOMAIN responses
    /\ responses[s].kind = "response"
    /\ responses[s].status_code = code

Last(q) == q[Len(q)]

IsPrefix(a, b) == Len(a) <= Len(b) /\ a = SubSeq(b, 1, Len(a))

GetEvents == {"get:" \o s : s \in Services}

\* The trace without the HTTP requests and the report write.
Steps(q) == SelectSeq(q, LAMBDA e : e \notin GetEvents \cup {"report"})

\* C1: a run that reaches its end without interrupt exits 0 if and only if
\* every configured service (status other than not_configured) is 'valid',
\* and exits 1 otherwise.
C1_ExitZeroIffAllConfiguredValid ==
    RanToEnd =>
        /\ exitCode \in {<<0>>, <<1>>}
        /\ exitCode = <<0>> <=>
              \A s \in Services : Status(s) # "not_configured" => Status(s) = "valid"

\* C2: a run that completes the three checks without interrupt writes the
\* report file exactly once, after the checks, with one entry
\* {valid, status, message, details} per service, replacing the previous one.
C2_ReportWrittenOnce ==
    RanToEnd =>
        /\ reportWrites = 1
        /\ Last(trace) = "report"
        /\ reportFile # PreviousReport
        /\ DOMAIN reportFile.results = Services
        /\ \A s \in Services :
              /\ DOMAIN reportFile.results[s] = {"valid", "status", "message", "details"}
              /\ reportFile.results[s].status = Status(s)
              /\ reportFile.results[s].valid = results[s].valid

\* C3: a service whose key is absent from the .env file, or set to the empty
\* value, never gets an HTTP request, and its check returns status
\* 'not_configured' with valid = false.
C3_MissingKeyNotConfigured ==
    \A s \in Services :
        (KeyAbsent(s) \/ KeyEmpty(s)) =>
            /\ requests[s] = 0
            /\ s \notin DOMAIN responses
            /\ Checked(s) => Status(s) = "not_configured" /\ ~results[s].valid

\* C3 witness: a checked service whose key is set to the empty value, one
\* whose key is absent, and a third that did get its request.
C3_Witness ==
    \E s, t, u \in Services :
        /\ Checked(s) /\ KeyEmpty(s)
        /\ Checked(t) /\ KeyAbsent(t) /\ fileExists
        /\ requests[u] = 1

\* C4: no exception propagates out of a per-service check: once a service's
\* request has been issued, the check has returned a result with a status of
\* the taxonomy.
C4_NoExceptionEscapesCheck ==
    \A s \in Services :
        requests[s] > 0 => Checked(s) /\ Status(s) \in Terminal

\* C5: with a configured key, a request that times out makes the check
\* return status 'timeout' with valid = false; no exception escapes.
C5_TimeoutStatus ==
    \A s \in DOMAIN responses :
        responses[s] = Timeout =>
            /\ Checked(s)
            /\ Status(s) = "timeout"
            /\ ~results[s].valid

\* C5 witness: all three requests of a run timed out.
C5_Witness ==
    /\ DOMAIN results = Services
    /\ \A s \in Services : s \in DOMAIN responses /\ responses[s] = Timeout

\* C6: HTTP 401 yields 'invalid' for CoinGecko and GitHub; for Etherscan an
\* HTTP 200 whose payload has a status field other than '1' yields 'invalid'.
C6_RejectedKeyInvalid ==
    /\ \A s \in {"coingecko", "github"} :
          Got(s, 401) => Checked(s) /\ Status(s) = "invalid" /\ ~results[s].valid
    /\ (/\ Got("etherscan", 200)
        /\ responses["etherscan"].body.json = "object"
        /\ responses["etherscan"].body.status # "1")
         => /\ Checked("etherscan")
            /\ Status("etherscan") = "invalid"
            /\ ~results["etherscan"].valid

\* C6 witness: one run with a 401 for CoinGecko and GitHub and a 200 with
\* status '0' for Etherscan.
C6_Witness ==
    /\ DOMAIN results = Services
    /\ Got("coingecko", 401)
    /\ Got("github", 401)
    /\ Got("etherscan", 200)
    /\ responses["etherscan"].body.json = "object"
    /\ responses["etherscan"].body.status = "0"

\* The detail each CoinGecko rate-limit header is copied to.
DetailOfHeader(name) ==
    IF name = "x-ratelimit-limit" THEN "rate_limit" ELSE "rate_remaining"

\* A 200 response with a payload of the shape the service documents.
ValidPayload(s) ==
    /\ Got(s, 200)
    /\ responses[s].body.json = "object"
    /\ CASE s = "coingecko" -> TRUE
         [] s = "etherscan" -> /\ responses[s].body.status = "1"
                               /\ responses[s].body.result = "obj_ethusd"
         [] s = "github" -> /\ responses[s].body.rate = "dict"
                            /\ responses[s].body.limit.t = "int"
                            /\ responses[s].body.remaining.t = "int"

\* C7: HTTP 200 with a valid payload yields 'valid' (valid = true), and the
\* details hold the rate-limit header values (CoinGecko, for each header the
\* response carries), the ETH price (Etherscan), the rate limit and the
\* remaining requests (GitHub).
C7_ValidWithDetails ==
    \A s \in Services :
        ValidPayload(s) =>
            /\ Checked(s)
            /\ Status(s) = "valid"
            /\ results[s].valid
            /\ CASE s = "coingecko" ->
                      \A h \in responses[s].headers :
                          <<DetailOfHeader(h[1]), h[2]>> \in results[s].result.details
                 [] s = "etherscan" ->
                      <<"eth_price", "$3000.5">> \in results[s].result.details
                 [] s = "github" ->
                      /\ <<"rate_limit",
                           ToString(responses[s].body.limit.v) \o " requests/hour">>
                            \in results[s].result.details
                      /\ <<"remaining", "59 requests remaining">>
                            \in results[s].result.details

\* C7 witness: a run where all three services answered 200 with a valid
\* payload and CoinGecko sent both rate-limit headers.
C7_Witness ==
    /\ \A s \in Services : ValidPayload(s) /\ Checked(s)
    /\ responses["coingecko"].headers = RateHeaders

\* C8: each check goes in one step from unchecked to exactly one terminal
\* status, with exactly one GET for a configured key and none otherwise, and
\* a stored result is never replaced.
C8_SingleStepToTerminal ==
    [][\A s \in Services :
          /\ (pc = s /\ pc' # s /\ exitCode' # <<130>>) =>
                /\ s \in DOMAIN results'
                /\ results'[s].result.status \in Terminal
                /\ requests'[s] = IF Truthy(EnvGet(env_vars, EnvKey(s))) THEN 1 ELSE 0
          /\ Checked(s) => s \in DOMAIN results' /\ results'[s] = results[s]
          /\ pc # s => requests'[s] = requests[s]]_vars

\* C9: the run aborts before any check only when the .env file is missing;
\* with the file missing it prints an error, exits 1, issues no request and
\* writes no report.
C9_AbortOnlyWhenFileMissing ==
    /\ (pc = "done" /\ exitCode = <<1>> /\ trace = <<>>) => ~fileExists
    /\ (~fileExists /\ pc = "done" /\ exitCode # <<130>>) =>
          /\ exitCode = <<1>>
          /\ errors # {}
          /\ \A s \in Services : requests[s] = 0
          /\ reportWrites = 0

\* The checks and pauses of a complete run.
FullRun ==
    <<"result:coingecko", "sleep:1", "result:etherscan", "sleep:1", "result:github">>

\* C10: the checks run in the order CoinGecko, Etherscan, GitHub with one
\* 1-second pause between consecutive checks, whatever the status of the
\* check before, and no pause after the last: the checks and pauses done so
\* far are a prefix of FullRun, and a request comes right before its result.
C10_FixedOrderAndPauses ==
    /\ IsPrefix(Steps(trace), FullRun)
    /\ pc \in {"etherscan", "github"} => Last(trace) = "sleep:1"
    /\ \A i \in DOMAIN trace :
          (trace[i] \in GetEvents /\ i < Len(trace)) =>
              \E s \in Services : trace[i] = "get:" \o s /\ trace[i + 1] = "result:" \o s

\* C10 witness: a complete run in which CoinGecko was not configured (no
\* request made) and Etherscan was.
C10_Witness ==
    /\ Steps(trace) = FullRun
    /\ Status("coingecko") = "not_configured"
    /\ requests["coingecko"] = 0
    /\ requests["etherscan"] = 1

\* C13: every result a check returned has its boolean true exactly when its
\* status is 'valid', and so has the report entry generate_report builds
\* from it.
C13_ValidIffStatusValid ==
    LET report == generate_report(results).results IN
    \A s \in DOMAIN results :
        /\ results[s].valid <=> Status(s) = "valid"
        /\ report[s].valid <=> report[s].status = "valid"

\* C13 witness: three results of one run, one 'valid', one 'timeout' and one
\* 'not_configured'.
C13_Witness ==
    /\ DOMAIN results = Services
    /\ \E s, t, u \in Services :
          /\ Status(s) = "valid" /\ results[s].valid
          /\ Status(t) = "timeout" /\ ~results[t].valid
          /\ Status(u) = "not_configured" /\ ~results[u].valid

\* This step was an open_browser call whose launch failed.
FailedOpen ==
    /\ Len(opens') = Len(opens) + 1
    /\ Last(opens').launch # "opened"

EndOfInputSeen == <<"error", "EOFError">> \in aprinted

C12_ExitCodes ==
    /\ pc \notin {"off", "done"} => ENABLED Interrupt
    /\ apc = "run" => ENABLED AInterrupt
    /\ sigint => (pc = "off" \/ exitCode = <<130>>) /\ (apc = "off" \/ aexit = <<130>>)
    /\ exitCode = <<130>> => sigint
    /\ aexit = <<130>> => sigint
    /\ (apc = "done" /\ ~sigint) =>
          aexit = IF EndOfInputSeen THEN <<1>> ELSE <<0>>
    /\ (apc = "done" /\ ~sigint /\ flags = {} /\ ~EndOfInputSeen) => aexit = <<0>>

\* C12 witness: the assistant interrupted at a prompt in the middle of a
\* guide, after a page was opened.
C12_Witness ==
    /\ sigint
    /\ aexit = <<130>>
    /\ opens # <<>>
    /\ todo # <<>>
    /\ Head(todo).op = "prompt"

====
